---- MODULE Spec2Model ----
(***************************************************************************)
(* A model of the drepo toolkit: the repository issue scanner              *)
(* (enforce.find_repo_issues), the declaration extractor                   *)
(* (make_init.get_python_definitions), the manifest generator              *)
(* (make_init.make_python_init) and the test template writer              *)
(* (write_tests.write_unit_test_templates).                                *)
(*                                                                         *)
(* Text is a sequence of one-character strings, a path is the sequence of  *)
(* its components (the empty sequence is the filesystem root).             *)
(***************************************************************************)
EXTENDS Integers, Sequences, FiniteSets, TLC

VARIABLES
    \* ---- find_repo_issues ----
    args,       \* the keyword arguments of the call
    idx,        \* position of the rglob loop in Entries
    lines,      \* the local `lines` (unbound until a readlines succeeds)
    is_clean,   \* the local `is_clean`
    out,        \* what has been printed, in order
    pc,         \* "scan", "done" (returned) or "raised" (exception left the call)
    ret,        \* the returned verdict, <<>> while there is none
    content,    \* what open()/readlines found in each file (history)
    \* ---- get_python_definitions ----
    text,            \* the `text` argument
    include_private, \* the `include_private` argument
    todo,            \* text.split("\n"), the list the loop runs over
    pos,             \* index in todo of the line the loop reads next
    funcs,           \* the local `funcs`
    skip_next,       \* the local `skip_next`
    skip_strs,       \* the local `skip_strs`
    dpc,             \* "idle", "scan" (in the loop) or "done" (funcs returned)
    \* ---- make_python_init ----
    margs,      \* the arguments lineup, wrap and filename
    folder,     \* the text of each source file of the folder (the input)
    elem,       \* position of the glob loop in Children
    results,    \* the local `results`, as (key, funcs) pairs in insertion order
    printed,    \* what has been printed, in order
    max_len,    \* the local `max_len`
    keys,       \* sorted(results), the list the second loop runs over
    knext,      \* index in keys of the module the second loop wraps next
    mlines,     \* the local `text`: the physical lines built so far
    writes,     \* every write_text_file(filename, output) made, in order
    wcalls,     \* the arguments of every line_wrap call made, in order
    mpc,        \* "idle", "glob", "dups", "pad", "wrap", "done" or "raised"
    mret,       \* the returned text in a 1-tuple, <<>> while there is none
    \* ---- write_unit_test_templates ----
    targs,      \* the arguments output, exclude, recursive, repo_subs, add_classification
    tree,       \* the text of each source file of the tree (the input)
    tfiles,     \* the local `files`
    tnext,      \* index in files of the file the loop takes next
    repo_name,  \* the local `repo_name`
    tlog,       \* what the call did to the outside, in order
    tpc         \* "idle", "start", "loop", "done" or "raised"

scanVars == <<args, idx, lines, is_clean, out, pc, ret, content>>
defVars == <<text, include_private, todo, pos, funcs, skip_next, skip_strs, dpc>>

manVars == <<margs, folder, elem, results, printed, max_len, keys, knext, mlines, writes, wcalls,
             mpc, mret>>
templVars == <<targs, tree, tfiles, tnext, repo_name, tlog, tpc>>

vars == <<scanVars, defVars, manVars, templVars>>

\* What a call of one function leaves alone: the state of the others
notScan == <<defVars, manVars, templVars>>
notDef == <<scanVars, manVars, templVars>>
notMan == <<scanVars, defVars, templVars>>
notTempl == <<scanVars, defVars, manVars>>

(***************************************************************************)
(* Bounds                                                                  *)
(***************************************************************************)
\* Total number of characters held by the scanned files of the tree.
MaxChars == 3
\* Number of lines joined into the text handed to get_python_definitions.
MaxLines == 3
\* Number of @overload-marked signatures put before a definition.
MaxOverloads == 2

(***************************************************************************)
(* Strings                                                                 *)
(***************************************************************************)
TAB == "\t"
LF == "\n"
CR == "\r"
SPACE == " "

\* The characters a scanned file is made of.
FileChars == {"a", SPACE, TAB, CR, LF}

RECURSIVE TextsUpTo(_)
TextsUpTo(n) ==
    IF n = 0 THEN {<<>>}
    ELSE LET shorter == TextsUpTo(n - 1)
         IN  shorter \cup {Append(t, ch) : t \in {s \in shorter : Len(s) = n - 1}, ch \in FileChars}

\* The texts a scanned file may hold, by the number of characters left to it
FileTexts == [n \in 0..MaxChars |-> TextsUpTo(n)]

\* str.endswith
EndsWith(s, suffix) ==
    /\ Len(suffix) <= Len(s)
    /\ SubSeq(s, Len(s) - Len(suffix) + 1, Len(s)) = suffix

\* str.startswith
StartsWith(s, prefix) ==
    /\ Len(prefix) <= Len(s)
    /\ SubSeq(s, 1, Len(prefix)) = prefix

\* str.rstrip(ch): every trailing ch is removed
RECURSIVE RStrip(_, _)
RStrip(s, ch) ==
    IF Len(s) > 0 /\ s[Len(s)] = ch THEN RStrip(SubSeq(s, 1, Len(s) - 1), ch) ELSE s

\* str.count(ch)
Count(s, ch) == Cardinality({i \in 1..Len(s) : s[i] = ch})

\* s[-k:] as Python slices it: the last k characters, and the whole of s when
\* k = 0 (-0 is 0) or k exceeds the length
PySuffix(s, k) ==
    IF k = 0 \/ k >= Len(s) THEN s ELSE SubSeq(s, Len(s) - k + 1, Len(s))

\* Length of the first line of s, terminator included, as a file opened with
\* newline="" delimits it: a line ends after "\n", "\r\n" or a lone "\r".
RECURSIVE FirstLineLen(_, _)
FirstLineLen(s, i) ==
    IF i > Len(s) THEN Len(s)
    ELSE IF s[i] = LF THEN i
    ELSE IF s[i] = CR THEN (IF i < Len(s) /\ s[i + 1] = LF THEN i + 1 ELSE i)
    ELSE FirstLineLen(s, i + 1)

\* file.readlines() of a file opened with newline="": the lines, terminators kept
RECURSIVE ReadLines(_)
ReadLines(s) ==
    IF Len(s) = 0 THEN <<>>
    ELSE LET n == FirstLineLen(s, 1)
         IN  <<SubSeq(s, 1, n)>> \o ReadLines(SubSeq(s, n + 1, Len(s)))

(***************************************************************************)
(* Paths                                                                   *)
(***************************************************************************)
\* pathlib.Path.parents: every proper ancestor
Parents(p) == {SubSeq(p, 1, n) : n \in 0..(Len(p) - 1)}

\* The scanned folder and what folder.rglob("*") yields, in the order the
\* filesystem lists it.
Folder == <<"home", "repo">>
SubDir == Folder \o <<"sub">>
FileA == Folder \o <<"a.py">>
FileB == SubDir \o <<"b.py">>
FileC == Folder \o <<"c.txt">>

Entries ==
    << [path |-> SubDir, is_file |-> FALSE, suffix |-> "", x_ok |-> TRUE],
       [path |-> FileA, is_file |-> TRUE, suffix |-> ".py", x_ok |-> TRUE],
       [path |-> FileC, is_file |-> TRUE, suffix |-> ".txt", x_ok |-> FALSE],
       [path |-> FileB, is_file |-> TRUE, suffix |-> ".py", x_ok |-> FALSE] >>

Files == {Entries[i].path : i \in {j \in 1..Len(Entries) : Entries[j].is_file}}

\* The default of the `extensions` parameter
DefaultExtensions == {".m", ".py"}

\* The `exclusions` a call is made with: None, or a tuple of paths.
NoExclusions == <<"None">>
NonExistent == <<"C:", "non_existant_path">>
ExclusionChoices ==
    { NoExclusions,
      <<Folder>>,                 \* the scanned folder itself
      <<<<"home">>>>,             \* an ancestor of the scanned folder
      <<NonExistent, Folder>>,    \* the scanned folder, second in the tuple
      <<SubDir, NonExistent>> }   \* a sub-directory of it and a path that is nowhere

\* check_eol: None, or the expected terminator
EolNone == <<"None">>
EolChoices == {EolNone, <<LF>>, <<CR, LF>>}

(***************************************************************************)
(* find_repo_issues                                                        *)
(***************************************************************************)
\* Mutant: the parents of the path are not looked at
_is_excluded_exact(path, exclusions) ==
    IF exclusions = NoExclusions THEN FALSE
    ELSE \E i \in 1..Len(exclusions) : exclusions[i] = path

\* _is_excluded(path, exclusions)
_is_excluded(path, exclusions) ==
    IF exclusions = NoExclusions THEN FALSE
    ELSE \E i \in 1..Len(exclusions) :
            exclusions[i] = path \/ exclusions[i] \in Parents(path)

\* The printed diagnostics
Evaluating(f) == [kind |-> "Evaluating", file |-> f, num |-> 0, text |-> <<>>]
LineIssue(f, n, line) == [kind |-> "Line", file |-> f, num |-> n, text |-> line]
BadEol(f, ending) == [kind |-> "EOL", file |-> f, num |-> 0, text |-> ending]
HasExecute(f) == [kind |-> "Exec", file |-> f, num |-> 0, text |-> <<>>]
NotUtf8(f) == [kind |-> "Decode", file |-> f, num |-> 0, text |-> <<>>]

\* line.rstrip("\n").rstrip("\r").rstrip("\n")
StripTerminator(line) == RStrip(RStrip(RStrip(line, LF), CR), LF)

\* Mutant: a line without an issue sets the verdict back to clean
LineStep_resetting(a, f, ls, c, st) ==
    LET line == ls[c]
        sline == StripTerminator(line)
        tab == a.check_tabs /\ Count(line, TAB) > 0
        trail == ~tab /\ a.trailing /\ Len(sline) >= 1 /\ sline[Len(sline)] = SPACE
        hit == tab \/ trail
        header == hit /\ ~st.already_listed
        out1 == st.out \o (IF header THEN <<Evaluating(f)>> ELSE <<>>)
                       \o (IF hit THEN <<LineIssue(f, c, line)>> ELSE <<>>)
        eol == /\ a.check_eol # EolNone
               /\ c # Len(ls)
               /\ ~EndsWith(line, a.check_eol)
               /\ ~st.bad_lines
        line_ending == PySuffix(line, Len(line) - Len(sline))
    IN  [ out |-> out1 \o (IF eol THEN <<BadEol(f, line_ending)>> ELSE <<>>),
          already_listed |-> st.already_listed \/ header,
          bad_lines |-> st.bad_lines \/ eol,
          is_clean |-> ~header /\ ~eol ]

\* One iteration of `for c, line in enumerate(lines)` (c is 1-based here) on the
\* per-file locals st = [out, already_listed, bad_lines, is_clean].
LineStep(a, f, ls, c, st) ==
    LET line == ls[c]
        sline == StripTerminator(line)
        tab == a.check_tabs /\ Count(line, TAB) > 0
        trail == ~tab /\ a.trailing /\ Len(sline) >= 1 /\ sline[Len(sline)] = SPACE
        hit == tab \/ trail
        header == hit /\ ~st.already_listed
        out1 == st.out \o (IF header THEN <<Evaluating(f)>> ELSE <<>>)
                       \o (IF hit THEN <<LineIssue(f, c, line)>> ELSE <<>>)
        eol == /\ a.check_eol # EolNone
               /\ c # Len(ls)
               /\ ~EndsWith(line, a.check_eol)
               /\ ~st.bad_lines
        line_ending == PySuffix(line, Len(line) - Len(sline))
    IN  [ out |-> out1 \o (IF eol THEN <<BadEol(f, line_ending)>> ELSE <<>>),
          already_listed |-> st.already_listed \/ header,
          bad_lines |-> st.bad_lines \/ eol,
          is_clean |-> st.is_clean /\ ~header /\ ~eol ]

RECURSIVE ScanLines(_, _, _, _, _)
ScanLines(a, f, ls, c, st) ==
    IF c > Len(ls) THEN st ELSE ScanLines(a, f, ls, c + 1, LineStep(a, f, ls, c, st))

\* Mutant: the execute check is not made for a file that list_all has listed
FileHead_unless_listed(a, f, x, o, clean) ==
    LET listed == a.list_all
        exec == a.show_execute /\ x /\ ~listed
    IN  [ out |-> o \o (IF listed THEN <<Evaluating(f)>> ELSE <<>>)
                    \o (IF exec THEN <<HasExecute(f)>> ELSE <<>>),
          already_listed |-> listed,
          bad_lines |-> FALSE,
          is_clean |-> clean /\ ~exec ]

\* The locals of one file's iteration before its lines are read: the header of
\* list_all and the execute check (x is what os.access(this_file, os.X_OK) answers).
FileHead(a, f, x, o, clean) ==
    LET listed == a.list_all
        exec == a.show_execute /\ x
    IN  [ out |-> o \o (IF listed THEN <<Evaluating(f)>> ELSE <<>>)
                    \o (IF exec THEN <<HasExecute(f)>> ELSE <<>>),
          already_listed |-> listed,
          bad_lines |-> FALSE,
          is_clean |-> clean /\ ~exec ]

Unbound == [bound |-> FALSE, val |-> <<>>]
Bound(ls) == [bound |-> TRUE, val |-> ls]

Unread == [read |-> FALSE, ok |-> FALSE, text |-> <<>>]
Decoded(t) == [read |-> TRUE, ok |-> TRUE, text |-> t]
Undecodable == [read |-> TRUE, ok |-> FALSE, text |-> <<>>]

\* Characters read so far from the files of the tree
RECURSIVE CharsIn(_, _)
CharsIn(c, fs) ==
    IF fs = {} THEN 0
    ELSE LET f == CHOOSE g \in fs : TRUE
         IN  Len(c[f].text) + CharsIn(c, fs \ {f})

ArgChoices ==
    [ list_all : BOOLEAN, check_tabs : BOOLEAN, trailing : BOOLEAN,
      show_execute : BOOLEAN, check_eol : EolChoices,
      exclusions : ExclusionChoices, extensions : {DefaultExtensions} ]

ScanStart ==
    /\ args \in ArgChoices
    /\ idx = 1
    /\ lines = Unbound
    /\ is_clean = TRUE
    /\ out = <<>>
    /\ pc = "scan"
    /\ ret = <<>>
    /\ content = [f \in Files |-> Unread]

Scanning == pc = "scan" /\ idx <= Len(Entries)

\* `if not this_file.is_file(): continue`, and a suffix outside `extensions`
SkipEntry ==
    /\ Scanning
    /\ ~Entries[idx].is_file \/ Entries[idx].suffix \notin args.extensions
    /\ idx' = idx + 1
    /\ UNCHANGED <<args, lines, is_clean, out, pc, ret, content>>
    /\ UNCHANGED notScan

Matching == Scanning /\ Entries[idx].is_file /\ Entries[idx].suffix \in args.extensions

\* `if _is_excluded(folder, exclusions): continue`
SkipExcluded ==
    /\ Matching
    /\ _is_excluded(Folder, args.exclusions)
    /\ idx' = idx + 1
    /\ UNCHANGED <<args, lines, is_clean, out, pc, ret, content>>
    /\ UNCHANGED notScan

\* A file whose bytes decode: readlines binds `lines`, the loop runs over them
ScanFile ==
    /\ Matching
    /\ ~_is_excluded(Folder, args.exclusions)
    /\ \E t \in FileTexts[MaxChars - CharsIn(content, Files)] :
          LET f == Entries[idx].path
              ls == ReadLines(t)
              st == ScanLines(args, f, ls, 1, FileHead(args, f, Entries[idx].x_ok, out, is_clean))
          IN  /\ content' = [content EXCEPT ![f] = Decoded(t)]
              /\ lines' = Bound(ls)
              /\ out' = st.out
              /\ is_clean' = st.is_clean
    /\ idx' = idx + 1
    /\ UNCHANGED <<args, pc, ret>>
    /\ UNCHANGED notScan

\* A file that is not valid UTF-8: readlines raises, the handler prints and
\* clears is_clean, and the loop then runs over whatever `lines` holds: the
\* previous file's lines, or nothing at all (UnboundLocalError leaves the call).
ScanUndecodable ==
    /\ Matching
    /\ ~_is_excluded(Folder, args.exclusions)
    /\ LET f == Entries[idx].path
           hd == FileHead(args, f, Entries[idx].x_ok, out, is_clean)
           st0 == [hd EXCEPT !.out = Append(hd.out, NotUtf8(f)), !.is_clean = FALSE]
       IN  /\ content' = [content EXCEPT ![f] = Undecodable]
           /\ IF lines.bound
              THEN LET st == ScanLines(args, f, lines.val, 1, st0)
                   IN  /\ out' = st.out
                       /\ is_clean' = st.is_clean
                       /\ idx' = idx + 1
                       /\ pc' = pc
              ELSE /\ out' = st0.out
                   /\ is_clean' = st0.is_clean
                   /\ idx' = idx
                   /\ pc' = "raised"
    /\ UNCHANGED <<args, lines, ret>>
    /\ UNCHANGED notScan

\* `return is_clean`
ScanReturn ==
    /\ pc = "scan"
    /\ idx > Len(Entries)
    /\ pc' = "done"
    /\ ret' = <<is_clean>>
    /\ UNCHANGED <<args, idx, lines, is_clean, out, content>>
    /\ UNCHANGED notScan

ScanNext == SkipEntry \/ SkipExcluded \/ ScanFile \/ ScanUndecodable \/ ScanReturn

\* No call of find_repo_issues is under way
ScanIdle ==
    /\ args = [ list_all |-> FALSE, check_tabs |-> TRUE, trailing |-> FALSE,
                show_execute |-> FALSE, check_eol |-> EolNone,
                exclusions |-> NoExclusions, extensions |-> DefaultExtensions ]
    /\ idx = 1
    /\ lines = Unbound
    /\ is_clean = TRUE
    /\ out = <<>>
    /\ pc = "idle"
    /\ ret = <<>>
    /\ content = [f \in Files |-> Unread]

(***************************************************************************)
(* get_python_definitions                                                  *)
(***************************************************************************)
QUOTE == "\""
TripleQuote == <<QUOTE, QUOTE, QUOTE>>
OverloadMarker == <<"@", "o", "v", "e", "r", "l", "o", "a", "d">>
ClassKeyword == <<"c", "l", "a", "s", "s", " ">>
DefKeyword == <<"d", "e", "f", " ">>

\* The lines the texts handed to the extractor are joined from
DefF == <<"d", "e", "f", " ", "f", "(", "x", ")", ":">>

DefLines ==
    { OverloadMarker,
      DefF,
      <<"d", "e", "f", " ", "_", "g", ":">>,
      <<"d", "e", "f", " ", "a", " ", "(", ")", ":">>,
      <<"c", "l", "a", "s", "s", " ", "C", ":">>,
      <<"c", "l", "a", "s", "s", " ", "_", "D", "(", "B", ")", ":">>,
      TripleQuote,
      <<"r", QUOTE, QUOTE, QUOTE, "d", QUOTE, QUOTE, QUOTE>>,
      <<"t", QUOTE, QUOTE, QUOTE>>,
      <<"X", " ", "=", " ", "1">>,
      <<"A", "b", " ", "=", " ", "1">>,
      <<"X", "_", "Y", ":", " ", "i", "n", "t", " ", "=", " ", "5">>,
      <<>> }

\* n signatures of f, each under an @overload marker, then the definition of f
RECURSIVE Overloaded(_)
Overloaded(n) == IF n = 0 THEN <<DefF>> ELSE <<OverloadMarker, DefF>> \o Overloaded(n - 1)

RECURSIVE LineSeqsUpTo(_)
LineSeqsUpTo(n) ==
    IF n = 0 THEN {<<>>}
    ELSE LET shorter == LineSeqsUpTo(n - 1)
         IN  shorter \cup {Append(t, l) : t \in {s \in shorter : Len(s) = n - 1}, l \in DefLines}

\* "\n".join(ls)
RECURSIVE JoinLines(_)
JoinLines(ls) ==
    IF Len(ls) = 0 THEN <<>>
    ELSE IF Len(ls) = 1 THEN ls[1]
    ELSE ls[1] \o <<LF>> \o JoinLines(Tail(ls))

\* Index of the first ch in s at or after i, 0 when there is none
RECURSIVE Find(_, _, _)
Find(s, ch, i) ==
    IF i > Len(s) THEN 0 ELSE IF s[i] = ch THEN i ELSE Find(s, ch, i + 1)

\* s.split(ch): the pieces between the occurrences of ch, one piece (s itself)
\* when there is none, so the split of the empty text is one empty piece
RECURSIVE Split(_, _)
Split(s, ch) ==
    LET i == Find(s, ch, 1)
    IN  IF i = 0 THEN <<s>>
        ELSE <<SubSeq(s, 1, i - 1)>> \o Split(SubSeq(s, i + 1, Len(s)), ch)

\* s.split(ch)[0]
BeforeFirst(s, ch) == Split(s, ch)[1]

Contains(s, ch) == Find(s, ch, 1) # 0

cap_letters ==
    {"A", "B", "C", "D", "E", "F", "G", "H", "I", "J", "K", "L", "M",
     "N", "O", "P", "Q", "R", "S", "T", "U", "V", "W", "X", "Y", "Z"}

\* frozenset(cap_letters & {"_"})
extended_letters == cap_letters \cap {"_"}

\* Mutant: the marker is never recognised
IsOverload_never(line) == FALSE

\* line == "@overload"
IsOverload(line) == line = OverloadMarker

\* Mutant: a block is opened by a line that holds the marker anywhere
OpensBlock_anywhere(line) ==
    \E i \in 1..Len(line) : i + 2 <= Len(line) /\ SubSeq(line, i, i + 2) = TripleQuote

\* line.startswith('r"""') or line.startswith('"""')
OpensBlock(line) == StartsWith(line, <<"r">> \o TripleQuote) \/ StartsWith(line, TripleQuote)

\* Mutant: classes are not filtered for privacy
IsClassLine_any(line, priv) == StartsWith(line, ClassKeyword)

\* line.startswith("class ") and (include_private or not line.startswith("class _"))
IsClassLine(line, priv) ==
    StartsWith(line, ClassKeyword) /\ (priv \/ ~StartsWith(line, ClassKeyword \o <<"_">>))

\* Mutant: the def rule fires on a class line too
IsDefLine_also_class(line, priv) ==
    \/ StartsWith(line, DefKeyword) /\ (priv \/ ~StartsWith(line, DefKeyword \o <<"_">>))
    \/ StartsWith(line, ClassKeyword)

\* line.startswith("def ") and (include_private or not line.startswith("def _"))
IsDefLine(line, priv) ==
    StartsWith(line, DefKeyword) /\ (priv \/ ~StartsWith(line, DefKeyword \o <<"_">>))

\* line[len(keyword):].split("(")[0].split(":")[0]
NameAfter(line, keyword) ==
    BeforeFirst(BeforeFirst(SubSeq(line, Len(keyword) + 1, Len(line)), "("), ":")

\* len(line) > 0 and line[0] in cap_letters and "=" in line and " " in line
IsConstantLine(line) ==
    Len(line) > 0 /\ line[1] \in cap_letters /\ Contains(line, "=") /\ Contains(line, " ")

\* line.split(" ")[0].split(":")[0]
ConstantToken(line) == BeforeFirst(BeforeFirst(line, " "), ":")

\* len(extended_letters - set(temp2)) == 0
TokenAccepted(temp2) ==
    Cardinality(extended_letters \ {temp2[i] : i \in 1..Len(temp2)}) = 0


\* Mutant: a block is closed by a line that starts with the marker
DefStep_closed_by_prefix(st, line, priv) ==
    IF st.skip_next THEN [st EXCEPT !.skip_next = FALSE]
    ELSE IF st.skip_strs
    THEN (IF StartsWith(line, TripleQuote) THEN [st EXCEPT !.skip_strs = FALSE] ELSE st)
    ELSE IF IsOverload(line) THEN [st EXCEPT !.skip_next = TRUE]
    ELSE LET f1 == IF IsClassLine(line, priv)
                   THEN Append(st.funcs, NameAfter(line, ClassKeyword)) ELSE st.funcs
             f2 == IF IsDefLine(line, priv)
                   THEN Append(f1, NameAfter(line, DefKeyword)) ELSE f1
             f3 == IF IsConstantLine(line) /\ TokenAccepted(ConstantToken(line))
                   THEN Append(f2, ConstantToken(line)) ELSE f2
         IN  [ funcs |-> f3,
               skip_next |-> st.skip_next,
               skip_strs |-> st.skip_strs \/ OpensBlock(line) ]

\* One iteration of `for line in text.split("\n")` on the locals
\* st = [funcs, skip_next, skip_strs].
DefStep(st, line, priv) ==
    IF st.skip_next THEN [st EXCEPT !.skip_next = FALSE]
    ELSE IF st.skip_strs
    THEN (IF EndsWith(line, TripleQuote) THEN [st EXCEPT !.skip_strs = FALSE] ELSE st)
    ELSE IF IsOverload(line) THEN [st EXCEPT !.skip_next = TRUE]
    ELSE LET f1 == IF IsClassLine(line, priv)
                   THEN Append(st.funcs, NameAfter(line, ClassKeyword)) ELSE st.funcs
             f2 == IF IsDefLine(line, priv)
                   THEN Append(f1, NameAfter(line, DefKeyword)) ELSE f1
             f3 == IF IsConstantLine(line) /\ TokenAccepted(ConstantToken(line))
                   THEN Append(f2, ConstantToken(line)) ELSE f2
         IN  [ funcs |-> f3,
               skip_next |-> st.skip_next,
               skip_strs |-> st.skip_strs \/ OpensBlock(line) ]

\* The locals before the loop
DefStart == [funcs |-> <<>>, skip_next |-> FALSE, skip_strs |-> FALSE]

RECURSIVE DefLoop(_, _, _, _)
DefLoop(st, ls, i, priv) ==
    IF i > Len(ls) THEN st ELSE DefLoop(DefStep(st, ls[i], priv), ls, i + 1, priv)

\* get_python_definitions(text, include_private=priv)
get_python_definitions(t, priv) == DefLoop(DefStart, Split(t, LF), 1, priv).funcs

DefInit ==
    /\ text \in {JoinLines(ls) : ls \in LineSeqsUpTo(MaxLines)
                                        \cup {Overloaded(n) : n \in 0..MaxOverloads}}
    /\ include_private \in BOOLEAN
    /\ todo = Split(text, LF)
    /\ pos = 1
    /\ funcs = DefStart.funcs
    /\ skip_next = DefStart.skip_next
    /\ skip_strs = DefStart.skip_strs
    /\ dpc = "scan"

\* The loop reads todo[pos]
DefLine ==
    /\ dpc = "scan"
    /\ pos <= Len(todo)
    /\ LET st == DefStep([funcs |-> funcs, skip_next |-> skip_next, skip_strs |-> skip_strs],
                         todo[pos], include_private)
       IN  /\ funcs' = st.funcs
           /\ skip_next' = st.skip_next
           /\ skip_strs' = st.skip_strs
    /\ pos' = pos + 1
    /\ UNCHANGED <<text, include_private, todo, dpc>>
    /\ UNCHANGED notDef

\* `return funcs`
DefReturn ==
    /\ dpc = "scan"
    /\ pos > Len(todo)
    /\ dpc' = "done"
    /\ UNCHANGED <<text, include_private, todo, pos, funcs, skip_next, skip_strs>>
    /\ UNCHANGED notDef

ExtractNext == DefLine \/ DefReturn

\* No call of get_python_definitions is under way
DefIdle ==
    /\ text = <<>>
    /\ include_private = FALSE
    /\ todo = <<>>
    /\ pos = 1
    /\ funcs = <<>>
    /\ skip_next = FALSE
    /\ skip_strs = FALSE
    /\ dpc = "idle"

(***************************************************************************)
(* make_python_init                                                        *)
(***************************************************************************)
\* The character codes sorted() orders the module names by
Ord(ch) ==
    CASE ch = "_" -> 95 [] ch = "a" -> 97 [] ch = "b" -> 98 [] ch = "i" -> 105
      [] ch = "n" -> 110 [] ch = "t" -> 116 [] OTHER -> 0

\* s < t, as Python compares str
RECURSIVE StrLess(_, _)
StrLess(s, t) ==
    IF Len(t) = 0 THEN FALSE
    ELSE IF Len(s) = 0 THEN TRUE
    ELSE IF s[1] # t[1] THEN Ord(s[1]) < Ord(t[1])
    ELSE StrLess(Tail(s), Tail(t))

\* Mutant: the names in descending order
RECURSIVE Sorted_descending(_)
Sorted_descending(S) ==
    IF S = {} THEN <<>>
    ELSE LET most == CHOOSE x \in S : \A y \in S \ {x} : StrLess(y, x)
         IN  <<most>> \o Sorted_descending(S \ {most})

\* sorted(S) of a set of str
RECURSIVE Sorted(_)
Sorted(S) ==
    IF S = {} THEN <<>>
    ELSE LET least == CHOOSE x \in S : \A y \in S \ {x} : StrLess(x, y)
         IN  <<least>> \o Sorted(S \ {least})

\* " " * n
RECURSIVE Spaces(_)
Spaces(n) == IF n <= 0 THEN <<>> ELSE <<SPACE>> \o Spaces(n - 1)

\* Mutant: a name is joined once, at its first place
RECURSIVE JoinNames_unique(_)
JoinNames_unique(names) ==
    LET rest == SelectSeq(Tail(names), LAMBDA n : n # names[1])
    IN  IF Len(names) = 0 THEN <<>>
        ELSE IF Len(rest) = 0 THEN names[1]
        ELSE names[1] \o <<",", SPACE>> \o JoinNames_unique(rest)

\* ", ".join(names)
RECURSIVE JoinNames(_)
JoinNames(names) ==
    IF Len(names) = 0 THEN <<>>
    ELSE IF Len(names) = 1 THEN names[1]
    ELSE names[1] \o <<",", SPACE>> \o JoinNames(Tail(names))

Init__ == <<"_", "_", "i", "n", "i", "t", "_", "_">>

\* What folder.glob("*") yields, in the order the filesystem lists it
Children ==
    << [stem |-> <<"s", "u", "b">>, is_dir |-> TRUE, suffix |-> ""],
       [stem |-> Init__, is_dir |-> FALSE, suffix |-> ".py"],
       [stem |-> <<"b", "b">>, is_dir |-> FALSE, suffix |-> ".py"],
       [stem |-> <<"n">>, is_dir |-> FALSE, suffix |-> ".txt"],
       [stem |-> <<"a">>, is_dir |-> FALSE, suffix |-> ".py"] >>

Sources == {Children[i].stem : i \in {j \in 1..Len(Children) : Children[j].suffix = ".py"}}

\* The texts a source file of the folder may hold
ModuleTexts ==
    { <<>>,
      <<"d", "e", "f", " ", "_", "g", ":">>,
      DefF,
      JoinLines(<<DefF, DefF>>),
      JoinLines(<<<<"c", "l", "a", "s", "s", " ", "C", ":">>, DefF>>) }

\* The wrap columns a call is made with; 100 is the default
WrapChoices == {10, 24, 30, 100}

\* filename: None, or the path to write
NoFilename == <<"None">>
OutPath == <<"home", "repo", "__init__.py">>

\* The `exclusions` local of make_python_init
InitExclusions == {"__init__.py"}

\* any(exc in this_elem.parents for exc in exclusions): the exclusions are str,
\* the parents are Path objects, and a str never equals a Path
ExcludedChild(child) == \E exc \in InitExclusions : FALSE

\* [func for v in results.values() for func in v]
RECURSIVE Flatten(_)
Flatten(rs) == IF Len(rs) = 0 THEN <<>> ELSE rs[1].funcs \o Flatten(Tail(rs))

Range(q) == {q[i] : i \in 1..Len(q)}

\* Mutant: a name counts as duplicated from its third occurrence
Duplicated_thrice(all_funcs) == {x \in Range(all_funcs) : Count(all_funcs, x) > 2}

\* set(x for x in all_funcs if all_funcs.count(x) > 1)
Duplicated(all_funcs) == {x \in Range(all_funcs) : Count(all_funcs, x) > 1}

\* results[key]
Lookup(rs, key) == rs[CHOOSE i \in 1..Len(rs) : rs[i].key = key].funcs

\* results[key] = funcs
Store(rs, key, fs) ==
    IF \E i \in 1..Len(rs) : rs[i].key = key
    THEN [i \in 1..Len(rs) |-> IF rs[i].key = key THEN [key |-> key, funcs |-> fs] ELSE rs[i]]
    ELSE Append(rs, [key |-> key, funcs |-> fs])

\* Mutant: the name is padded whether lineup is set or not
Header_always_padded(key, lineup, longest) ==
    <<"f", "r", "o", "m", " ", ".">> \o key \o Spaces(longest - Len(key))
        \o <<" ", "i", "m", "p", "o", "r", "t", " ">>

\* "from ." + key + pad + " import "
Header(key, lineup, longest) ==
    <<"f", "r", "o", "m", " ", ".">> \o key
        \o (IF lineup THEN Spaces(longest - Len(key)) ELSE <<>>)
        \o <<" ", "i", "m", "p", "o", "r", "t", " ">>

\* len("from . import ") + max_len + 4
Indent(longest) == 14 + longest + 4

\* line_wrap(this_line, wrap=wrap, min_wrap=min_wrap, indent=indent) as called
WrapCall(line, wrap, min_wrap, indent) ==
    [line |-> line, wrap |-> wrap, min_wrap |-> min_wrap, indent |-> indent]

WrapFailed == [ok |-> FALSE, lines |-> <<>>]
Wrapped(ls) == [ok |-> TRUE, lines |-> ls]

\* The word-wrap collaborator, line_wrap([line], wrap, min_wrap, indent): it
\* fails when min_wrap exceeds wrap, returns a line that fits as it is, and
\* otherwise either fails or breaks the line at a space between the two columns.
line_wrap(line, wrap, min_wrap, indent) ==
    IF min_wrap > wrap THEN {WrapFailed}
    ELSE IF Len(line) <= wrap THEN {Wrapped(<<line>>)}
    ELSE {WrapFailed} \cup
         { Wrapped(<< SubSeq(line, 1, p) \o <<"\\">>,
                      Spaces(indent) \o SubSeq(line, p + 1, Len(line)) >>) :
             p \in {q \in min_wrap..(wrap - 1) : q <= Len(line) /\ line[q] = SPACE} }

ManStart ==
    /\ margs \in [lineup : BOOLEAN, wrap : WrapChoices, filename : {NoFilename, OutPath}]
    /\ folder \in [Sources -> ModuleTexts]
    /\ elem = 1
    /\ results = <<>>
    /\ printed = <<>>
    /\ max_len = 0
    /\ keys = <<>>
    /\ knext = 1
    /\ mlines = <<>>
    /\ writes = <<>>
    /\ wcalls = <<>>
    /\ mpc = "glob"
    /\ mret = <<>>

\* One iteration of `for this_elem in folder.glob("*")`: a directory and a file
\* of another suffix are passed over, a source file is read and its
\* definitions kept when there are any
GlobElem ==
    /\ mpc = "glob"
    /\ elem <= Len(Children)
    /\ LET child == Children[elem]
       IN  IF child.is_dir \/ child.suffix # ".py" \/ ExcludedChild(child)
           THEN results' = results
           ELSE LET fs == get_python_definitions(folder[child.stem], FALSE)
                IN  results' = IF Len(fs) > 0 THEN Store(results, child.stem, fs) ELSE results
    /\ elem' = elem + 1
    /\ UNCHANGED <<margs, folder, printed, max_len, keys, knext, mlines, writes, wcalls, mpc, mret>>
    /\ UNCHANGED notMan

\* The end of the glob loop
GlobEnd ==
    /\ mpc = "glob"
    /\ elem > Len(Children)
    /\ mpc' = "dups"
    /\ UNCHANGED <<margs, folder, elem, results, printed, max_len, keys, knext, mlines, writes, wcalls,
                   mret>>
    /\ UNCHANGED notMan

UniquenessProblem(n, u) == [kind |-> "Uniqueness", n |-> n, unique |-> u, names |-> {}]
DuplicatedHeader == [kind |-> "Duplicated", n |-> 0, unique |-> 0, names |-> {}]
DuplicatedNames(d) == [kind |-> "Names", n |-> 0, unique |-> 0, names |-> d]

\* `# check for duplicates`
CheckDuplicates ==
    /\ mpc = "dups"
    /\ LET all_funcs == Flatten(results)
           dups == Duplicated(all_funcs)
       IN  printed' = printed
              \o (IF Len(all_funcs) # Cardinality(Range(all_funcs))
                  THEN <<UniquenessProblem(Len(all_funcs), Cardinality(Range(all_funcs)))>>
                  ELSE <<>>)
              \o (IF dups # {} THEN <<DuplicatedHeader, DuplicatedNames(dups)>> ELSE <<>>)
    /\ mpc' = "pad"
    /\ UNCHANGED <<margs, folder, elem, results, max_len, keys, knext, mlines, writes, wcalls, mret>>
    /\ UNCHANGED notMan

\* `max_len = max(len(x) for x in results)`: max() of nothing raises ValueError
Padding ==
    /\ mpc = "pad"
    /\ IF Len(results) = 0
       THEN /\ mpc' = "raised"
            /\ UNCHANGED <<max_len, keys>>
       ELSE /\ max_len' = CHOOSE n \in {Len(results[i].key) : i \in 1..Len(results)} :
                              \A i \in 1..Len(results) : Len(results[i].key) <= n
            /\ keys' = Sorted({results[i].key : i \in 1..Len(results)})
            /\ mpc' = "wrap"
    /\ UNCHANGED <<margs, folder, elem, results, printed, knext, mlines, writes, wcalls, mret>>
    /\ UNCHANGED notMan

\* Mutant: the file is written module by module, inside the loop
WrapModule_writing ==
    /\ mpc = "wrap"
    /\ knext <= Len(keys)
    /\ LET key == keys[knext]
           header == Header(key, margs.lineup, max_len)
           this_line == header \o JoinNames(Lookup(results, key))
       IN  /\ wcalls' = Append(wcalls, WrapCall(this_line, margs.wrap, Len(header), Indent(max_len)))
           /\ \E w \in line_wrap(this_line, margs.wrap, Len(header), Indent(max_len)) :
              IF w.ok
              THEN /\ mlines' = mlines \o w.lines
                   /\ writes' = IF margs.filename # NoFilename
                                THEN Append(writes, [path |-> margs.filename,
                                                     text |-> JoinLines(mlines \o w.lines)])
                                ELSE writes
                   /\ knext' = knext + 1
                   /\ mpc' = mpc
              ELSE /\ mpc' = "raised"
                   /\ UNCHANGED <<mlines, knext, writes>>
    /\ UNCHANGED <<margs, folder, elem, results, printed, max_len, keys, mret>>
    /\ UNCHANGED notMan

\* One iteration of `for key in sorted(results)`: the module's line is built
\* and wrapped; an error of line_wrap leaves the call
WrapModule ==
    /\ mpc = "wrap"
    /\ knext <= Len(keys)
    /\ LET key == keys[knext]
           header == Header(key, margs.lineup, max_len)
           this_line == header \o JoinNames(Lookup(results, key))
       IN  /\ wcalls' = Append(wcalls, WrapCall(this_line, margs.wrap, Len(header), Indent(max_len)))
           /\ \E w \in line_wrap(this_line, margs.wrap, Len(header), Indent(max_len)) :
              IF w.ok
              THEN /\ mlines' = mlines \o w.lines
                   /\ knext' = knext + 1
                   /\ mpc' = mpc
              ELSE /\ mpc' = "raised"
                   /\ UNCHANGED <<mlines, knext>>
    /\ UNCHANGED <<margs, folder, elem, results, printed, max_len, keys, writes, mret>>
    /\ UNCHANGED notMan

\* Mutant: the text is returned and never written
Finish_never_writing ==
    /\ mpc = "wrap"
    /\ knext > Len(keys)
    /\ mret' = <<JoinLines(mlines)>>
    /\ mpc' = "done"
    /\ UNCHANGED <<margs, folder, elem, results, printed, max_len, keys, knext, mlines, writes, wcalls>>
    /\ UNCHANGED notMan

\* After the loop: the lines are joined, written when a filename was given,
\* and returned
Finish ==
    /\ mpc = "wrap"
    /\ knext > Len(keys)
    /\ LET output == JoinLines(mlines)
       IN  /\ writes' = IF margs.filename # NoFilename
                        THEN Append(writes, [path |-> margs.filename, text |-> output])
                        ELSE writes
           /\ mret' = <<output>>
    /\ mpc' = "done"
    /\ UNCHANGED <<margs, folder, elem, results, printed, max_len, keys, knext, mlines, wcalls>>
    /\ UNCHANGED notMan

ManifestNext == GlobElem \/ GlobEnd \/ CheckDuplicates \/ Padding \/ WrapModule \/ Finish

\* No call of make_python_init is under way
ManIdle ==
    /\ margs = [lineup |-> TRUE, wrap |-> 100, filename |-> NoFilename]
    /\ folder = [m \in Sources |-> <<>>]
    /\ elem = 1
    /\ results = <<>>
    /\ printed = <<>>
    /\ max_len = 0
    /\ keys = <<>>
    /\ knext = 1
    /\ mlines = <<>>
    /\ writes = <<>>
    /\ wcalls = <<>>
    /\ mpc = "idle"
    /\ mret = <<>>

(***************************************************************************)
(* write_unit_test_templates                                               *)
(***************************************************************************)
\* The paths of this function have text components, so that they can be
\* joined: /h/r is the folder the templates are written for
TFolder == << <<"h">>, <<"r">> >>
DotPy == <<".", "p", "y">>

\* The source files the tree may hold: a_b.py, a/b.py, t/t.py and o/o.py
FileAB == TFolder \o << <<"a", "_", "b">> \o DotPy >>
FileInA == TFolder \o << <<"a">>, <<"b">> \o DotPy >>
FileInT == TFolder \o << <<"t">>, <<"t">> \o DotPy >>
FileInO == TFolder \o << <<"o">>, <<"o">> \o DotPy >>
Candidates == {FileAB, FileInA, FileInT, FileInO}

DirA == TFolder \o << <<"a">> >>
DirT == TFolder \o << <<"t">> >>

\* The `output` argument: a folder inside the tree, or one beside it
OutputChoices == {TFolder \o << <<"o">> >>, << <<"h">>, <<"o">> >>}

\* The `exclude` argument: None, a Path, or a tuple of Paths
NoExclude == [kind |-> "none", paths |-> <<>>]
OnePath(p) == [kind |-> "path", paths |-> <<p>>]
TupleOf(ps) == [kind |-> "tuple", paths |-> ps]
ExcludeChoices == {NoExclude, OnePath(DirT), TupleOf(<<DirT>>), TupleOf(<<DirA, DirT>>)}

\* The `repo_subs` argument: None (no pair), or one pair
RepoSubsChoices == {{}, {[key |-> <<"r">>, alias |-> <<"x">>]}}

\* A file the tree does not hold
Absent == <<"absent">>

DefPrivG == <<"d", "e", "f", " ", "_", "g", ":">>

\* The texts a source file of the tree may hold
TemplateTexts == {<<>>, JoinLines(<<DefF, DefPrivG, DefF>>)}

\* The orders list_python_files may list the tree in
ListingOrders ==
    { <<FileAB, FileInA, FileInO, FileInT>>,
      <<FileInA, FileInO, FileInT, FileAB>> }

\* The file listing collaborator, list_python_files(folder, recursive): the
\* source files right in the folder, and with recursive those below it too,
\* in one fixed order
list_python_files(tr, recursive) ==
    { SelectSeq(order, LAMBDA f :
          /\ tr[f] # Absent
          /\ (recursive \/ SubSeq(f, 1, Len(f) - 1) = TFolder)) :
        order \in ListingOrders }

\* sep.join(parts)
RECURSIVE JoinWith(_, _)
JoinWith(parts, sep) ==
    IF Len(parts) = 0 THEN <<>>
    ELSE IF Len(parts) = 1 THEN parts[1]
    ELSE parts[1] \o <<sep>> \o JoinWith(Tail(parts), sep)

\* s.replace(".", "_")
Flattened(s) == [i \in 1..Len(s) |-> IF s[i] = "." THEN "_" ELSE s[i]]

\* str(file)[num:].replace("\\", "/").split("/"): the components below folder
NamesOf(file) == SubSeq(file, Len(TFolder) + 1, Len(file))

\* names[-1][:-3]
StemOfFile(names) == SubSeq(names[Len(names)], 1, Len(names[Len(names)]) - 3)

\* ".".join(names[:-1])
SubRepo(names) == JoinWith(SubSeq(names, 1, Len(names) - 1), ".")

\* repo_name + ("." + sub_repo if sub_repo else "")
ThisRepo(repo, sub_repo) == repo \o (IF Len(sub_repo) > 0 THEN <<".">> \o sub_repo ELSE <<>>)

\* Mutant: every declaration is prefixed with the file's stem
FuncName_always_owned(names, func) ==
    LET owned == StemOfFile(names) \o <<".">> \o func
    IN  IF Len(SubRepo(names)) > 0 THEN SubRepo(names) \o <<".">> \o owned ELSE owned

\* The name a declaration is tested under: an underscore-prefixed one is
\* prefixed with the file's stem, and all are prefixed with the sub-repo
FuncName(names, func) ==
    LET owned == IF StartsWith(func, <<"_">>) THEN StemOfFile(names) \o <<".">> \o func ELSE func
    IN  IF Len(SubRepo(names)) > 0 THEN SubRepo(names) \o <<".">> \o owned ELSE owned

\* A line of the generated text: the template of the line and what fills it
FixedLine(template) == [line |-> template, a |-> <<>>, b |-> <<>>]
FilledLine(template, a, b) == [line |-> template, a |-> a, b |-> b]

\* The lines added for one declaration
TestBlock(names, func) ==
    << FilledLine("# %% {a}", FuncName(names, func), <<>>),
       FilledLine("class Test_{a}(unittest.TestCase):", Flattened(FuncName(names, func)), <<>>),
       FixedLine("    r\"\"\""),
       FilledLine("    Tests the {a} function with the following cases:", FuncName(names, func), <<>>),
       FixedLine("        TBD"),
       FixedLine("    \"\"\""),
       FixedLine(""),
       FixedLine("    pass  # TODO: write this"),
       FixedLine(""),
       FixedLine("") >>

RECURSIVE TestBlocks(_, _)
TestBlocks(names, fs) ==
    IF Len(fs) = 0 THEN <<>> ELSE TestBlock(names, fs[1]) \o TestBlocks(names, Tail(fs))

\* `import_text`: the import of this_repo, under its alias when _subs has one.
\* The hard-coded keys of _subs name the dstauffman packages, which no
\* repository of this tree is, so the pairs that matter are those of repo_subs
ImportLine(this_repo, subs) ==
    IF \E s \in subs : s.key = this_repo
    THEN FilledLine("import {a} as {b}", this_repo, (CHOOSE s \in subs : s.key = this_repo).alias)
    ELSE FilledLine("import {a}", this_repo, <<>>)

\* The list `text` built for one file, whose lines are joined and written
\* (the template of the second line is written without its two backquotes)
TemplateText(names, repo, fs, a) ==
    << FixedLine("r\"\"\""),
       FilledLine("Test file for the {a} module of the \"{b}\" library.",
                  StemOfFile(names), ThisRepo(repo, SubRepo(names))),
       FixedLine(""), FixedLine("Notes"), FixedLine("-----"),
       FixedLine("#.  Written by {author} in {month} {year}.") >>
    \o (IF a.add_classification
        THEN <<FixedLine(""), FixedLine("Classification"), FixedLine("--------------"), FixedLine("TBD")>>
        ELSE <<>>)
    \o << FixedLine("\"\"\""), FixedLine(""), FixedLine("# %% Imports"),
          FixedLine("import unittest"), FixedLine(""),
          ImportLine(ThisRepo(repo, SubRepo(names)), a.repo_subs), FixedLine(""), FixedLine("") >>
    \o TestBlocks(names, fs)
    \o << FixedLine("# %% Unit test execution"), FixedLine("if __name__ == \"__main__\":"),
          FixedLine("    unittest.main(exit=False)"), FixedLine("") >>

\* Path.joinpath(output, "test_" + "_".join(names))
NewFile(output, names) == output \o << <<"t", "e", "s", "t", "_">> \o JoinWith(names, "_") >>

\* `exclude is not None and exclude in file.parents or output in file.parents`:
\* a tuple is never equal to one of the parents, which are Paths
IsSkipped(a, file) ==
    \/ a.exclude.kind # "none" /\ a.exclude.kind = "path" /\ a.exclude.paths[1] \in Parents(file)
    \/ a.output \in Parents(file)

\* What the call does to the outside, in order
Effect(op, path, doc) == [op |-> op, path |-> path, text |-> doc]

TemplStart ==
    /\ targs \in [output : OutputChoices, exclude : ExcludeChoices, recursive : BOOLEAN,
                  repo_subs : RepoSubsChoices, add_classification : BOOLEAN]
    /\ tree \in [Candidates -> TemplateTexts \cup {Absent}]
    /\ tfiles = <<>>
    /\ tnext = 1
    /\ repo_name = <<>>
    /\ tlog = <<>>
    /\ tpc = "start"

\* Lines 147-164: the output folder is set up, the files are listed and the
\* repository is named after the folder of the first one; files[0] of an empty
\* listing raises IndexError
Prepare ==
    /\ tpc = "start"
    /\ \E listing \in list_python_files(tree, targs.recursive) :
          /\ tfiles' = listing
          /\ tlog' = tlog \o <<Effect("setup_dir", targs.output, <<>>), Effect("list", TFolder, <<>>)>>
          /\ IF Len(listing) = 0
             THEN tpc' = "raised" /\ UNCHANGED repo_name
             ELSE tpc' = "loop" /\ repo_name' = listing[1][Len(listing[1]) - 1]
    /\ UNCHANGED <<targs, tree, tnext>>
    /\ UNCHANGED notTempl

\* One iteration of `for file in files` that ends at `continue`
SkipFile ==
    /\ tpc = "loop"
    /\ tnext <= Len(tfiles)
    /\ IsSkipped(targs, tfiles[tnext])
    /\ tnext' = tnext + 1
    /\ UNCHANGED <<targs, tree, tfiles, repo_name, tlog, tpc>>
    /\ UNCHANGED notTempl

\* One iteration of `for file in files` that reads the file and writes its
\* template
WriteTemplate ==
    /\ tpc = "loop"
    /\ tnext <= Len(tfiles)
    /\ ~IsSkipped(targs, tfiles[tnext])
    /\ LET file == tfiles[tnext]
           fs == get_python_definitions(tree[file], TRUE)
           names == NamesOf(file)
           new_file == NewFile(targs.output, names)
       IN  tlog' = tlog \o << Effect("read", file, <<>>),
                              Effect("print", new_file, <<>>),
                              Effect("write", new_file, TemplateText(names, repo_name, fs, targs)) >>
    /\ tnext' = tnext + 1
    /\ UNCHANGED <<targs, tree, tfiles, repo_name, tpc>>
    /\ UNCHANGED notTempl

\* The end of the loop: the function returns None
TemplReturn ==
    /\ tpc = "loop"
    /\ tnext > Len(tfiles)
    /\ tpc' = "done"
    /\ UNCHANGED <<targs, tree, tfiles, tnext, repo_name, tlog>>
    /\ UNCHANGED notTempl

TemplatesNext == Prepare \/ SkipFile \/ WriteTemplate \/ TemplReturn

\* No call of write_unit_test_templates is under way
TemplIdle ==
    /\ targs = [output |-> << <<"h">>, <<"o">> >>, exclude |-> NoExclude, recursive |-> TRUE,
                repo_subs |-> {}, add_classification |-> FALSE]
    /\ tree = [f \in Candidates |-> Absent]
    /\ tfiles = <<>>
    /\ tnext = 1
    /\ repo_name = <<>>
    /\ tlog = <<>>
    /\ tpc = "idle"

(***************************************************************************)
(* Specifications                                                          *)
(***************************************************************************)
\* One call of find_repo_issues
ScanInit == ScanStart /\ DefIdle /\ ManIdle /\ TemplIdle
SpecScan == ScanInit /\ [][ScanNext]_vars

\* One call of get_python_definitions
ExtractInit == DefInit /\ ScanIdle /\ ManIdle /\ TemplIdle
SpecExtract == ExtractInit /\ [][ExtractNext]_vars

\* One call of make_python_init
ManifestInit == ManStart /\ ScanIdle /\ DefIdle /\ TemplIdle
SpecManifest == ManifestInit /\ [][ManifestNext]_vars

\* One call of write_unit_test_templates
TemplatesInit == TemplStart /\ ScanIdle /\ DefIdle /\ ManIdle
SpecTemplates == TemplatesInit /\ [][TemplatesNext]_vars

(***************************************************************************)
(* Properties of find_repo_issues                                          *)
(***************************************************************************)
IssueKinds == {"Line", "EOL", "Exec", "Decode"}

\* What was printed about file f, restricted to some kinds of diagnostic
OutOf(f, kinds) == SelectSeq(out, LAMBDA r : r.file = f /\ r.kind \in kinds)

\* The matching files the loop has gone past
Visited ==
    {Entries[i].path : i \in {j \in 1..(idx - 1) :
        Entries[j].is_file /\ Entries[j].suffix \in args.extensions}}

\* The terminator a line ends with, the empty text when it has none
TerminatorOf(line) ==
    IF EndsWith(line, <<CR, LF>>) THEN <<CR, LF>>
    ELSE IF EndsWith(line, <<LF>>) THEN <<LF>>
    ELSE IF EndsWith(line, <<CR>>) THEN <<CR>>
    ELSE <<>>

\* The logical content of a line: the line without its terminator
LogicalContent(line) == SubSeq(line, 1, Len(line) - Len(TerminatorOf(line)))

HasTab(line) == \E i \in 1..Len(line) : line[i] = TAB
EndsWithSpace(line) ==
    LET logical == LogicalContent(line)
    IN  Len(logical) > 0 /\ logical[Len(logical)] = SPACE

\* C1: the returned verdict is clean if and only if no issue of any kind was
\* emitted for any file of the tree.
C1_CleanIffNoIssue ==
    pc = "done" =>
        ((ret = <<TRUE>>) <=> (\A i \in 1..Len(out) : out[i].kind \notin IssueKinds))

\* C2: an undecodable file gets one decode-error diagnostic, makes the verdict
\* unclean, has no line of any file reported under it, and never stops the scan.
C2_DecodeErrorIsolated ==
    /\ pc # "raised"
    /\ \A f \in Files :
          content[f] = Undecodable =>
              /\ Len(OutOf(f, {"Decode"})) = 1
              /\ ~is_clean
              /\ OutOf(f, {"Line", "EOL"}) = <<>>

\* The 'Line NNN' diagnostics the lines ls[c..] of file f call for
RECURSIVE ExpectedLineIssues(_, _, _)
ExpectedLineIssues(f, ls, c) ==
    IF c > Len(ls) THEN <<>>
    ELSE (IF \/ args.check_tabs /\ HasTab(ls[c])
             \/ args.trailing /\ EndsWithSpace(ls[c])
          THEN <<LineIssue(f, c, ls[c])>> ELSE <<>>)
         \o ExpectedLineIssues(f, ls, c + 1)

\* The classification of lines 207-220 taken alone: when the scan returns, the
\* 'Line NNN' diagnostics of every file that was decoded are exactly its tab
\* lines and its trailing-space lines.  Holds in SpecScan.
DecodedLineIssuesExact ==
    pc = "done" =>
        \A f \in Visited :
            content[f].ok =>
                OutOf(f, {"Line"}) = ExpectedLineIssues(f, ReadLines(content[f].text), 1)

\* C3: when the scan returns, the 'Line NNN' diagnostics of every scanned file
\* are exactly its own tab lines (with check_tabs) and its own lines whose
\* logical content ends with a space (with trailing), each once, in order,
\* with its 1-based number and raw text; a file that could not be decoded has
\* no line of its own to report.
C3_LineIssuesExact ==
    pc = "done" =>
        \A f \in Visited :
            OutOf(f, {"Line"}) =
                IF content[f].ok
                THEN ExpectedLineIssues(f, ReadLines(content[f].text), 1)
                ELSE <<>>

\* Some exclusion is the scanned folder or an ancestor of it
RootExcluded ==
    /\ args.exclusions # NoExclusions
    /\ \E i \in 1..Len(args.exclusions) :
          LET e == args.exclusions[i]
          IN  Len(e) <= Len(Folder) /\ SubSeq(Folder, 1, Len(e)) = e

FirstBadEol(ls) ==
    LET bad == {c \in 1..(Len(ls) - 1) : ~EndsWith(ls[c], args.check_eol)}
    IN  IF bad = {} THEN 0 ELSE CHOOSE c \in bad : \A d \in bad : c <= d

\* The bad-line-ending diagnostic the lines ls of file f call for
ExpectedBadEol(f, ls) ==
    LET c == FirstBadEol(ls)
    IN  IF c = 0 THEN <<>> ELSE <<BadEol(f, TerminatorOf(ls[c]))>>

\* The end-of-line check of lines 221-225 taken alone: at most one diagnostic
\* per file, none without check_eol, the verdict unclean once one is emitted,
\* and for every file that was decoded it is the one its first offending line
\* calls for.  Holds in SpecScan.
DecodedBadEolExact ==
    /\ \A f \in Files : Len(OutOf(f, {"EOL"})) <= 1
    /\ args.check_eol = EolNone => \A i \in 1..Len(out) : out[i].kind # "EOL"
    /\ (\E i \in 1..Len(out) : out[i].kind = "EOL") => ~is_clean
    /\ (args.check_eol # EolNone /\ pc = "done") =>
          \A f \in Visited :
              content[f].ok =>
                  OutOf(f, {"EOL"}) = ExpectedBadEol(f, ReadLines(content[f].text))

\* C5: a file gets at most one bad-line-ending diagnostic, and none without
\* check_eol; when the scan returns a file has it exactly when some line of
\* its own, other than its last, does not end with the expected terminator,
\* citing the terminator of the first such line; a file that could not be
\* decoded has no line of its own; once emitted the verdict is unclean.
C5_OneBadEolPerFile ==
    /\ \A f \in Files : Len(OutOf(f, {"EOL"})) <= 1
    /\ args.check_eol = EolNone => \A i \in 1..Len(out) : out[i].kind # "EOL"
    /\ (\E i \in 1..Len(out) : out[i].kind = "EOL") => ~is_clean
    /\ (args.check_eol # EolNone /\ pc = "done") =>
          \A f \in Visited :
              OutOf(f, {"EOL"}) =
                  IF content[f].ok
                  THEN ExpectedBadEol(f, ReadLines(content[f].text))
                  ELSE <<>>

(***************************************************************************)
(* Properties of get_python_definitions                                    *)
(***************************************************************************)
IsPrivateName(n) == Len(n) > 0 /\ n[1] = "_"
RemovePrivate(names) == SelectSeq(names, LAMBDA n : ~IsPrivateName(n))

\* The loop is about to read a line
Reading == dpc = "scan" /\ pos <= Len(todo)

\* No line of the text is an overload marker or holds a quote
PlainText == \A i \in 1..Len(todo) : todo[i] # OverloadMarker /\ Find(todo[i], QUOTE, 1) = 0

\* The name a `class _...` or `def _...` line declares
PrivateNameOf(line) ==
    LET rest == IF line[1] = "c" THEN SubSeq(line, 7, Len(line)) ELSE SubSeq(line, 5, Len(line))
        stop == {i \in 1..Len(rest) : rest[i] \in {"(", ":"}}
    IN  IF stop = {} THEN rest
        ELSE SubSeq(rest, 1, (CHOOSE i \in stop : \A j \in stop : i <= j) - 1)

IsPrivateLine(line) ==
    \/ Len(line) >= 7 /\ SubSeq(line, 1, 7) = <<"c", "l", "a", "s", "s", " ", "_">>
    \/ Len(line) >= 5 /\ SubSeq(line, 1, 5) = <<"d", "e", "f", " ", "_">>

\* C6: without include_private the result is the result with include_private
\* less its underscore-prefixed names, order kept, and holds no such name; with
\* include_private every `class _x` / `def _x` line of a text without overload
\* markers and quotes has its name in the result.
C6_PrivacyFilter ==
    dpc = "done" =>
        /\ ~include_private =>
              /\ funcs = RemovePrivate(get_python_definitions(text, TRUE))
              /\ \A i \in 1..Len(funcs) : ~IsPrivateName(funcs[i])
        /\ (include_private /\ PlainText) =>
              \A i \in 1..Len(todo) :
                  IsPrivateLine(todo[i]) =>
                      \E j \in 1..Len(funcs) : funcs[j] = PrivateNameOf(todo[i])

\* A private class after a public def: dropped without include_private
C6_Witness ==
    /\ dpc = "done" /\ ~include_private
    /\ todo = <<DefF, <<"c", "l", "a", "s", "s", " ", "_", "D", "(", "B", ")", ":">>,
                <<"d", "e", "f", " ", "_", "g", ":">> >>
    /\ funcs = <<<<"f">>>>
    /\ get_python_definitions(text, TRUE) = << <<"f">>, <<"_", "D">>, <<"_", "g">> >>

\* C7: the line after an '@overload' line read in normal state adds no
\* declaration and only clears skip_next; a definition of f after any number
\* of overload-marked signatures of f is returned once.
C7_OverloadSkipsNext ==
    /\ [][(Reading /\ skip_next) =>
              (funcs' = funcs /\ skip_strs' = skip_strs /\ ~skip_next' /\ pos' = pos + 1)]_vars
    /\ [][(Reading /\ ~skip_next /\ ~skip_strs /\ todo[pos] = OverloadMarker) =>
              (skip_next' /\ funcs' = funcs /\ ~skip_strs')]_vars
    /\ [](dpc = "done" =>
              \A n \in 0..MaxOverloads : todo = Overloaded(n) => funcs = <<<<"f">>>>)

\* Two overload-marked signatures and the definition: one name
C7_Witness ==
    /\ dpc = "done"
    /\ todo = <<OverloadMarker, DefF, OverloadMarker, DefF, DefF>>
    /\ funcs = <<<<"f">>>>

\* C8: a line starting with an uppercase letter adds a declaration only if
\* every character of the declared token is an uppercase letter or '_'.
C8_ConstantsUpperOnly ==
    [][(Reading /\ Len(todo[pos]) > 0 /\ todo[pos][1] \in cap_letters /\ funcs' # funcs) =>
          \A i \in 1..Len(funcs'[Len(funcs')]) :
              funcs'[Len(funcs')][i] \in cap_letters \cup {"_"}]_vars

(***************************************************************************)
(* Properties of make_python_init                                          *)
(***************************************************************************)
\* Some name stands at two places of the list
OccursTwice(names) ==
    \E i, j \in 1..Len(names) : i < j /\ names[i] = names[j]

Printed(kind) == \E i \in 1..Len(printed) : printed[i].kind = kind

\* The text holds an import line of module key
HasEntry(t, key) ==
    \E i \in 1..Len(Split(t, LF)) :
        StartsWith(Split(t, LF)[i], <<"f", "r", "o", "m", " ", ".">> \o key \o <<SPACE>>)

\* C9: the uniqueness warning and the set of repeated names are printed if and
\* only if some name occurs more than once in the flattened declarations; the
\* check itself never ends the call, and a returned manifest has an import
\* entry for every module with declarations.
C9_DuplicatesAdvisory ==
    /\ [](mpc \in {"pad", "wrap", "done", "raised"} =>
            LET all_funcs == Flatten(results)
                repeated == {all_funcs[i] : i \in {k \in 1..Len(all_funcs) :
                                \E j \in 1..Len(all_funcs) : j # k /\ all_funcs[j] = all_funcs[k]}}
            IN  /\ Printed("Uniqueness") <=> OccursTwice(all_funcs)
                /\ Printed("Names") <=> OccursTwice(all_funcs)
                /\ \A i \in 1..Len(printed) :
                      printed[i].kind = "Names" => printed[i].names = repeated)
    /\ [][mpc = "dups" => mpc' = "pad"]_vars
    /\ [](mpc = "done" =>
            \A m \in Sources :
                Len(get_python_definitions(folder[m], FALSE)) > 0 => HasEntry(mret[1], m))

\* Two modules declare f: the warning names f, and both modules are listed
C9_Witness ==
    /\ mpc = "done"
    /\ folder[<<"a">>] = DefF /\ folder[<<"b", "b">>] = DefF
    /\ \E i \in 1..Len(printed) : printed[i] = DuplicatedNames({<<"f">>})
    /\ Printed("Uniqueness")
    /\ HasEntry(mret[1], <<"a">>) /\ HasEntry(mret[1], <<"b", "b">>)

\* C10: when line_wrap fails the call raises, returns nothing and has written
\* nothing; the one write happens after every module was wrapped and holds the
\* returned text; no line is built while every header is wider than wrap.
C10_NoPartialWrite ==
    /\ mpc = "raised" => (writes = <<>> /\ mret = <<>>)
    /\ writes # <<>> =>
          /\ mpc = "done"
          /\ knext > Len(keys)
          /\ Len(writes) = 1
          /\ writes[1].text = mret[1]
    /\ mlines # <<>> =>
          \E i \in 1..Len(keys) :
              Len(<<"f", "r", "o", "m", " ", ".">>) + Len(keys[i])
                  + Len(<<" ", "i", "m", "p", "o", "r", "t", " ">>) <= margs.wrap

\* line_wrap failed on a later module, after an earlier one was wrapped, in a
\* call that was given a filename
C10_Witness ==
    /\ mpc = "raised"
    /\ margs.filename = OutPath
    /\ Len(mlines) > 0
    /\ writes = <<>>

\* C11: the child named '__init__.py' is never taken as a module: it gets no
\* entry in results, and no line of the manifest imports from .__init__,
\* whatever its text declares.
C11_OutputNameExcluded ==
    /\ \A i \in 1..Len(results) : results[i].key # Init__
    /\ \A i \in 1..Len(mlines) :
          ~StartsWith(mlines[i], <<"f", "r", "o", "m", " ", ".">> \o Init__)

\* The stems of the direct children that are source files with declarations
Declaring ==
    {Children[i].stem : i \in {j \in 1..Len(Children) :
        /\ ~Children[j].is_dir
        /\ Children[j].suffix = ".py"
        /\ Len(get_python_definitions(folder[Children[j].stem], FALSE)) > 0}}

FromDot == <<"f", "r", "o", "m", " ", ".">>

\* The positions of the manifest lines that open a module, in order
HeaderAt(ls) == {i \in 1..Len(ls) : StartsWith(ls[i], FromDot)}

\* The stem a header line names: the text between 'from .' and the next space
StemOf(line) == BeforeFirst(SubSeq(line, Len(FromDot) + 1, Len(line)), SPACE)

RECURSIVE LStripSpaces(_)
LStripSpaces(s) == IF Len(s) > 0 /\ s[1] = SPACE THEN LStripSpaces(Tail(s)) ELSE s

\* A module's lines put back on one line: the continuation mark of every line
\* but the last and the indentation of every line but the first are dropped
RECURSIVE Unwrap(_)
Unwrap(block) ==
    IF Len(block) = 1 THEN block[1]
    ELSE SubSeq(block[1], 1, Len(block[1]) - 1)
            \o Unwrap(<<LStripSpaces(block[2])>> \o SubSeq(block, 3, Len(block)))

\* The lines from header position h up to the line before the next header
BlockFrom(ls, h) ==
    LET later == {i \in HeaderAt(ls) : i > h}
        last == IF later = {} THEN Len(ls)
                ELSE (CHOOSE i \in later : \A j \in later : i <= j) - 1
    IN  SubSeq(ls, h, last)

\* C12: the returned manifest has one block of contiguous lines per direct
\* child source file with declarations and no other block; the blocks stand in
\* ascending order of stem, the first line of the manifest opens the first
\* block, and each block put back on one line is the header of its stem
\* followed by the file's declarations in extraction order.
C12_ManifestSortedComplete ==
    mpc = "done" =>
        LET ls == Split(mret[1], LF)
            hs == HeaderAt(ls)
        IN  IF Declaring = {} THEN mret[1] = <<>>
            ELSE /\ 1 \in hs
                 /\ {StemOf(ls[h]) : h \in hs} = Declaring
                 /\ Cardinality(hs) = Cardinality(Declaring)
                 /\ \A h, k \in hs : h < k => StrLess(StemOf(ls[h]), StemOf(ls[k]))
                 /\ \A h \in hs :
                       Unwrap(BlockFrom(ls, h)) =
                           Header(StemOf(ls[h]), margs.lineup, max_len)
                               \o JoinNames(get_python_definitions(folder[StemOf(ls[h])], FALSE))

\* Two modules are listed, one of them on two lines, and one source file
\* without declarations is left out
C12_Witness ==
    /\ mpc = "done"
    /\ folder[<<"a">>] = <<>>
    /\ Cardinality(Declaring) = 2
    /\ Len(Split(mret[1], LF)) = 3
    /\ Len(get_python_definitions(folder[<<"b", "b">>], FALSE)) = 2

(***************************************************************************)
(* Properties of write_unit_test_templates                                 *)
(***************************************************************************)
\* The effects of one kind, in order
EffectsOf(op) == SelectSeq(tlog, LAMBDA e : e.op = op)

\* C13: no two writes of one run go to the same output path, so the number of
\* distinct files written is the number of source files processed (read).
C13_DistinctOutputs ==
    /\ \A i, j \in 1..Len(EffectsOf("write")) :
          i # j => EffectsOf("write")[i].path # EffectsOf("write")[j].path
    /\ tpc = "done" =>
          Cardinality({EffectsOf("write")[i].path : i \in 1..Len(EffectsOf("write"))})
              = Cardinality({EffectsOf("read")[i].path : i \in 1..Len(EffectsOf("read"))})

\* The file lies under one of the paths of `exclude`, or under the output folder
UnderExcluded(file) ==
    \/ \E k \in 1..Len(targs.exclude.paths) : targs.exclude.paths[k] \in Parents(file)
    \/ targs.output \in Parents(file)

\* C14: a listed file the loop has gone past was read, and a template written
\* for it, if and only if it lies under no excluded path (whether exclude is
\* one path or a tuple of paths) and not under the output folder.
C14_ExclusionsHonoured ==
    /\ \A i \in 1..(tnext - 1) :
          (\E k \in 1..Len(tlog) : tlog[k].op = "read" /\ tlog[k].path = tfiles[i])
              <=> ~UnderExcluded(tfiles[i])
    /\ Len(EffectsOf("write")) = Len(EffectsOf("read"))

\* The title the claim gives the test block of declaration d of the file with
\* relative components names: the sub-package path, the file's stem for an
\* underscore-prefixed declaration only, then the declaration, joined by '.',
\* every '.' replaced by '_'
TitleOf(names, d) ==
    LET name == names[Len(names)]
        stem == IF EndsWith(name, DotPy) THEN SubSeq(name, 1, Len(name) - Len(DotPy)) ELSE name
    IN  Flattened(JoinWith(SubSeq(names, 1, Len(names) - 1)
                              \o (IF StartsWith(d, <<"_">>) THEN <<stem>> ELSE <<>>)
                              \o <<d>>, "."))

\* The titles of the test classes of a written text, in order
ClassTitles(doc) ==
    LET heads == SelectSeq(doc, LAMBDA l : l.line = "class Test_{a}(unittest.TestCase):")
    IN  [i \in 1..Len(heads) |-> heads[i].a]

\* C15: the text written for a source file has one test class per declaration
\* the extractor returns for it with include_private set, in extraction order,
\* repeated names included, each titled as TitleOf says; and as many section
\* comments as test classes.
C15_OneBlockPerDeclaration ==
    \A k \in 3..Len(tlog) :
        tlog[k].op = "write" =>
            LET file == tlog[k - 2].path
                names == SubSeq(file, Len(TFolder) + 1, Len(file))
                fs == get_python_definitions(tree[file], TRUE)
            IN  /\ tlog[k - 2].op = "read"
                /\ ClassTitles(tlog[k].text) = [i \in 1..Len(fs) |-> TitleOf(names, fs[i])]
                /\ Len(SelectSeq(tlog[k].text, LAMBDA l : l.line = "# %% {a}")) = Len(fs)

\* The template of a/b.py, which declares f, _g and f again
C15_Witness ==
    \E k \in 3..Len(tlog) :
        /\ tlog[k].op = "write" /\ tlog[k - 2].path = FileInA
        /\ ClassTitles(tlog[k].text) =
              << <<"a", "_", "f">>, <<"a", "_", "b", "_", "_", "g">>, <<"a", "_", "f">> >>

\* The modules of a manifest text, each put back on one line, in order
UnwrappedModules(t) ==
    LET ls == Split(t, LF)
        hs == SelectSeq([i \in 1..Len(ls) |-> i], LAMBDA i : i \in HeaderAt(ls))
    IN  [i \in 1..Len(hs) |-> Unwrap(BlockFrom(ls, hs[i]))]

\* What the folder, lineup and the longest stem alone call for: the one-line
\* import of every declaring module, in sorted order
ModulesCalledFor ==
    LET ks == Sorted(Declaring)
        longest == CHOOSE n \in {Len(k) : k \in Declaring} : \A k \in Declaring : Len(k) <= n
    IN  [i \in 1..Len(ks) |->
            Header(ks[i], margs.lineup, longest)
                \o JoinNames(get_python_definitions(folder[ks[i]], FALSE))]

\* C16: the file is written only by a call that returns and was given a
\* filename; such a call writes once, to that filename, the text it returns; a
\* call without filename writes nothing; and the returned modules are those the
\* folder and lineup call for, whether a filename was given or not.
C16_WritesIffFilename ==
    /\ writes # <<>> => mpc = "done" /\ margs.filename # NoFilename
    /\ mpc = "done" =>
          /\ writes = IF margs.filename = NoFilename THEN <<>>
                      ELSE <<[path |-> margs.filename, text |-> mret[1]]>>
          /\ UnwrappedModules(mret[1]) = ModulesCalledFor

\* A call with a filename returned a manifest of two lines and wrote it
C16_Witness ==
    /\ mpc = "done"
    /\ margs.filename = OutPath
    /\ Len(Split(mret[1], LF)) >= 2
    /\ writes = <<[path |-> OutPath, text |-> mret[1]]>>

(***************************************************************************)
(* Further properties of find_repo_issues                                  *)
(***************************************************************************)
\* The file has a line of its own that calls for a 'Line NNN' diagnostic
HasLineIssue(f) ==
    /\ content[f].ok
    /\ ExpectedLineIssues(f, ReadLines(content[f].text), 1) # <<>>

\* The header rule of lines 194-218 taken alone: at most one header per file,
\* a header before every 'Line NNN' diagnostic of the file, and for every file
\* that was decoded a header exactly when list_all is set or the file has a
\* line issue.  Holds in SpecScan.
DecodedHeaderExact ==
    /\ \A f \in Files : Len(OutOf(f, {"Evaluating"})) <= 1
    /\ \A i \in 1..Len(out) :
          out[i].kind = "Line" => \E j \in 1..(i - 1) : out[j] = Evaluating(out[i].file)
    /\ pc = "done" =>
          \A f \in Visited :
              content[f].ok =>
                  (OutOf(f, {"Evaluating"}) # <<>> <=> (args.list_all \/ HasLineIssue(f)))

\* C17: a file gets at most one 'Evaluating' header, the header comes before
\* every 'Line NNN' diagnostic of the file, and when the scan returns a scanned
\* file has the header if and only if list_all is set or the file has a tab or
\* trailing-space line issue of its own.
C17_HeaderIffListedOrIssue ==
    /\ \A f \in Files : Len(OutOf(f, {"Evaluating"})) <= 1
    /\ \A i \in 1..Len(out) :
          out[i].kind = "Line" => \E j \in 1..(i - 1) : out[j] = Evaluating(out[i].file)
    /\ pc = "done" =>
          \A f \in Visited :
              content[f].read =>
                  (OutOf(f, {"Evaluating"}) # <<>> <=> (args.list_all \/ HasLineIssue(f)))

\* os.access(f, os.X_OK) for a file of the tree
Executable(f) == \E i \in 1..Len(Entries) : Entries[i].path = f /\ Entries[i].x_ok

\* C18: a file that was read has the execute diagnostic exactly when
\* show_execute is set and the file is executable, whatever the other flags
\* and its content; the diagnostic clears the verdict, stands before every
\* content diagnostic of the file and leaves the line and end-of-line checks
\* of the file as they are; without show_execute there is no such diagnostic
\* and an unclean verdict always has a content diagnostic behind it.
C18_ExecuteIndependent ==
    /\ \A f \in Files :
          content[f].read =>
              OutOf(f, {"Exec"}) =
                  IF args.show_execute /\ Executable(f) THEN <<HasExecute(f)>> ELSE <<>>
    /\ (\E i \in 1..Len(out) : out[i].kind = "Exec") =>
          (~is_clean /\ (pc = "done" => ret = <<FALSE>>))
    /\ \A i, j \in 1..Len(out) :
          (/\ out[i].kind = "Exec"
           /\ out[j].file = out[i].file
           /\ out[j].kind \in {"Line", "EOL", "Decode"}) => i < j
    /\ pc = "done" =>
          \A f \in Visited :
              (content[f].ok /\ OutOf(f, {"Exec"}) # <<>>) =>
                  /\ OutOf(f, {"Line"}) = ExpectedLineIssues(f, ReadLines(content[f].text), 1)
                  /\ args.check_eol # EolNone =>
                        OutOf(f, {"EOL"}) = ExpectedBadEol(f, ReadLines(content[f].text))
    /\ ~args.show_execute =>
          (~is_clean => \E i \in 1..Len(out) : out[i].kind \in {"Line", "EOL", "Decode"})

\* An executable file with a tab line and a bad line ending, all checks on: the
\* execute diagnostic is followed by the line and end-of-line diagnostics
C18_Witness ==
    /\ pc = "done" /\ ret = <<FALSE>>
    /\ args.show_execute /\ args.check_tabs /\ args.list_all
    /\ args.check_eol = <<CR, LF>>
    /\ content[FileA] = Decoded(<<TAB, LF, "a">>)
    /\ OutOf(FileA, IssueKinds) =
          <<HasExecute(FileA), LineIssue(FileA, 1, <<TAB, LF>>), BadEol(FileA, <<LF>>)>>

\* C19: with check_eol set, a decoded file of a returned scan that has a line,
\* other than its last, whose terminator is not exactly check_eol has a
\* bad-line-ending diagnostic and the verdict is unclean; so CR LF lines are
\* reported under check_eol = LF.
C19_ExactTerminator ==
    (pc = "done" /\ args.check_eol # EolNone) =>
        \A f \in Visited :
            (/\ content[f].ok
             /\ \E c \in 1..(Len(ReadLines(content[f].text)) - 1) :
                   TerminatorOf(ReadLines(content[f].text)[c]) # args.check_eol)
                => (OutOf(f, {"EOL"}) # <<>> /\ ret = <<FALSE>>)

(***************************************************************************)
(* Further properties of get_python_definitions                            *)
(***************************************************************************)
\* C20: the name a class or def line adds holds no '(' and no ':', neither
\* starts nor ends with a space, and without include_private is not an
\* underscore-prefixed name once trimmed.
C20_NamesTrimmed ==
    [][(/\ Reading
        /\ StartsWith(todo[pos], DefKeyword) \/ StartsWith(todo[pos], ClassKeyword)
        /\ funcs' # funcs) =>
          LET name == funcs'[Len(funcs')]
          IN  /\ ~Contains(name, "(") /\ ~Contains(name, ":")
              /\ Len(name) > 0 => (name[1] # SPACE /\ name[Len(name)] # SPACE)
              /\ ~include_private => ~IsPrivateName(LStripSpaces(name))]_vars

\* C21: a line read while skip_strs is set adds no declaration and does not
\* set skip_next, and it clears skip_strs exactly when it ends with the
\* triple-quote marker; the line read after the closing one is read in normal
\* state, so that a def line there adds its name.
C21_BlockIgnored ==
    /\ [][(Reading /\ skip_strs) =>
            /\ funcs' = funcs
            /\ ~skip_next'
            /\ skip_strs' <=> ~EndsWith(todo[pos], TripleQuote)]_vars
    /\ [][(/\ Reading /\ pos > 1 /\ ~skip_strs /\ ~skip_next
           /\ EndsWith(todo[pos - 1], TripleQuote)
           /\ todo[pos] = DefF) => funcs' = Append(funcs, <<"f">>)]_vars

\* A def line stood inside a block that the third line has closed: nothing
\* was extracted
C21_Witness ==
    /\ todo = <<TripleQuote, DefF, TripleQuote>>
    /\ pos = 4
    /\ ~skip_strs
    /\ funcs = <<>>

\* The line is a triple-quoted string that opens and closes on the line: it
\* starts with the marker (or r and the marker) and ends with a second marker
OneLineString(line) ==
    LET open == IF StartsWith(line, <<"r">>) THEN <<"r">> \o TripleQuote ELSE TripleQuote
    IN  /\ StartsWith(line, open)
        /\ EndsWith(line, TripleQuote)
        /\ Len(line) >= Len(open) + Len(TripleQuote)

\* C22: a one-line triple-quoted string read in normal state leaves skip_strs
\* unset, and a def line that follows it is extracted.
C22_OneLineStringCloses ==
    /\ [][(Reading /\ ~skip_strs /\ ~skip_next /\ OneLineString(todo[pos])) => ~skip_strs']_vars
    /\ [](\A i \in 1..(Len(todo) - 1) :
            (/\ pos > i + 1
             /\ OneLineString(todo[i])
             /\ todo[i + 1] = DefF
             /\ \A j \in 1..(i - 1) : todo[j] = <<>>)
                => \E k \in 1..Len(funcs) : funcs[k] = <<"f">>)

(***************************************************************************)
(* Further properties of make_python_init                                  *)
(***************************************************************************)
\* The names a module's block of the manifest imports, in order
ImportList(ls, h) ==
    LET whole == Unwrap(BlockFrom(ls, h))
        head == Header(StemOf(ls[h]), margs.lineup, max_len)
        parts == Split(SubSeq(whole, Len(head) + 1, Len(whole)), ",")
    IN  [i \in 1..Len(parts) |-> LStripSpaces(parts[i])]

\* C23 as claimed: in the returned manifest no module's import list holds a
\* name twice.
C23_ImportListDeduplicated ==
    mpc = "done" =>
        \A h \in HeaderAt(Split(mret[1], LF)) :
            ~OccursTwice(ImportList(Split(mret[1], LF), h))

\* C23 as amended: in the returned manifest every module's import list holds
\* each name as many times as the extractor returned it for the file, and a
\* name returned twice for one file has the uniqueness warning printed.
C23_DuplicatesKept ==
    mpc = "done" =>
        \A h \in HeaderAt(Split(mret[1], LF)) :
            LET names == ImportList(Split(mret[1], LF), h)
                fs == get_python_definitions(folder[StemOf(Split(mret[1], LF)[h])], FALSE)
            IN  /\ \A n \in Range(fs) \cup Range(names) : Count(names, n) = Count(fs, n)
                /\ OccursTwice(fs) => (OccursTwice(names) /\ Printed("Uniqueness"))

\* The text of a.py declares f twice, and the manifest imports f, f from it
C23_Witness ==
    /\ mpc = "done"
    /\ folder[<<"a">>] = JoinLines(<<DefF, DefF>>)
    /\ \E h \in HeaderAt(Split(mret[1], LF)) :
          /\ StemOf(Split(mret[1], LF)[h]) = <<"a">>
          /\ ImportList(Split(mret[1], LF), h) = << <<"f">>, <<"f">> >>
    /\ Printed("Uniqueness")

ImportKeyword == <<" ", "i", "m", "p", "o", "r", "t", " ">>

\* The length of the header of an import line: up to the end of ' import '
HeaderLen(line) ==
    LET at == {i \in 1..(Len(line) - Len(ImportKeyword) + 1) :
                  SubSeq(line, i, i + Len(ImportKeyword) - 1) = ImportKeyword}
    IN  (CHOOSE i \in at : \A j \in at : i <= j) + Len(ImportKeyword) - 1

\* The length of the longest stem among the declaring modules
LongestStem == CHOOSE n \in {Len(k) : k \in Declaring} : \A k \in Declaring : Len(k) <= n

\* C24: every line handed to line_wrap has a header of length
\* len('from .') + longest stem + len(' import ') with lineup, and
\* len('from .') + its own stem + len(' import ') without; the indent handed
\* over is len('from . import ') + longest stem + 4 for every module, min_wrap
\* is the length of the module's own header and wrap is the wrap argument.
C24_HeaderAlignment ==
    \A k \in 1..Len(wcalls) :
        LET call == wcalls[k]
            own == Len(StemOf(call.line))
        IN  /\ StartsWith(call.line, FromDot)
            /\ HeaderLen(call.line) =
                  Len(FromDot) + (IF margs.lineup THEN LongestStem ELSE own) + Len(ImportKeyword)
            /\ call.indent = Len(FromDot) + Len(ImportKeyword) + LongestStem + 4
            /\ call.min_wrap = HeaderLen(call.line)
            /\ call.wrap = margs.wrap

\* With lineup, the modules a and bb were handed over with headers of one
\* length
C24_Witness ==
    /\ margs.lineup
    /\ Len(wcalls) = 2
    /\ StemOf(wcalls[1].line) = <<"a">>
    /\ StemOf(wcalls[2].line) = <<"b", "b">>
    /\ wcalls[1].min_wrap = wcalls[2].min_wrap
    /\ wcalls[1].indent = wcalls[2].indent

(***************************************************************************)
(* Further properties of write_unit_test_templates                         *)
(***************************************************************************)
\* The output folder is set up once, first of all; a write comes right after
\* the progress line of its path, and a progress line right before its write
SetupThenPairs ==
    /\ Len(EffectsOf("setup_dir")) <= 1
    /\ Len(tlog) > 0 =>
          (tlog[1] = Effect("setup_dir", targs.output, <<>>) /\ Len(EffectsOf("setup_dir")) = 1)
    /\ \A k \in 1..Len(tlog) :
          /\ tlog[k].op = "write" =>
                (k > 1 /\ tlog[k - 1].op = "print" /\ tlog[k - 1].path = tlog[k].path)
          /\ tlog[k].op = "print" =>
                (k < Len(tlog) /\ tlog[k + 1].op = "write" /\ tlog[k + 1].path = tlog[k].path)

\* The listed files the loop has gone past that lie under no excluded path and
\* not under the output folder
PassedAndKept == {i \in 1..(tnext - 1) : ~UnderExcluded(tfiles[i])}

\* The order of effects of lines 156-204 with the exclusion of one path or of
\* none: set-up first and once, progress line and write in pairs, one pair
\* per file that is not excluded.  Holds in SpecTemplates.
PairsPerKeptFile ==
    /\ SetupThenPairs
    /\ targs.exclude.kind # "tuple" =>
          (/\ Len(EffectsOf("write")) = Cardinality(PassedAndKept)
           /\ Len(EffectsOf("print")) = Cardinality(PassedAndKept))

\* C25: the output folder is set up exactly once and before anything is
\* listed, read or written; every write comes right after one progress line
\* naming its path and every progress line right before its write; and there
\* is one such pair per listed file that is not excluded, none for an
\* excluded one.
C25_SetupThenProgressPairs ==
    /\ SetupThenPairs
    /\ Len(EffectsOf("write")) = Cardinality(PassedAndKept)
    /\ Len(EffectsOf("print")) = Cardinality(PassedAndKept)

\* The name of the scanned folder itself
FolderName == TFolder[Len(TFolder)]

\* The text is headed by the repository name r: it is r or r followed by a dot
HeadedBy(path, r) == path = r \/ StartsWith(path, r \o <<".">>)

\* The library path of the module line and the path of the import line of a
\* written template
LibraryPaths(doc) ==
    {doc[i].b : i \in {j \in 1..Len(doc) :
                          doc[j].line = "Test file for the {a} module of the \"{b}\" library."}}
    \cup {doc[i].a : i \in {j \in 1..Len(doc) :
                          doc[j].line \in {"import {a}", "import {a} as {b}"}}}

\* When the listing returns a direct child of the folder first, the repository
\* name is the name of the folder (line 162).  Holds in SpecTemplates.
RepoNameOfDirectChild ==
    (Len(tfiles) > 0 /\ Len(NamesOf(tfiles[1])) = 1) => repo_name = FolderName

\* C26: the repository name heading every generated library path and import
\* line is the name of the scanned folder, whichever file the listing
\* returns first.
C26_RepoNameIsFolderName ==
    \A k \in 1..Len(tlog) :
        tlog[k].op = "write" =>
            \A p \in LibraryPaths(tlog[k].text) : HeadedBy(p, FolderName)

\* C27: the verdict is monotone during a traversal: once unclean it is unclean
\* after every later file, whether clean, skipped or of another extension, and
\* the returned verdict is unclean whenever the verdict was unclean.
C27_VerdictMonotone ==
    /\ [][~is_clean => ~is_clean']_vars
    /\ []((pc = "done" /\ ~is_clean) => ret = <<FALSE>>)

\* The first file has a tab line, the next entry is of another extension and
\* the last file is clean: the scan returned unclean
C27_Witness ==
    /\ pc = "done" /\ ret = <<FALSE>>
    /\ args.check_tabs /\ args.exclusions = NoExclusions
    /\ content[FileA] = Decoded(<<TAB>>)
    /\ content[FileB] = Decoded(<<"a", LF>>)
    /\ OutOf(FileB, IssueKinds) = <<>>

(***************************************************************************)
(* Further properties of get_python_definitions                            *)
(***************************************************************************)
\* The number of the three rules of lines 133-144 that fire on a line
RulesFiring(line, priv) ==
    (IF IsClassLine(line, priv) THEN 1 ELSE 0)
    + (IF IsDefLine(line, priv) THEN 1 ELSE 0)
    + (IF IsConstantLine(line) /\ TokenAccepted(ConstantToken(line)) THEN 1 ELSE 0)

\* The line about to be read is read in the normal state and is no marker
ReadNormally == ~skip_next /\ ~skip_strs /\ ~IsOverload(todo[pos])

\* C28: every line contributes at most one declaration: no line has two of the
\* class, def and constant rules firing, a step appends at most one name at
\* the end of the result and keeps what was there, a class or def line read
\* in the normal state appends its name even when the name is there already,
\* and the result is never longer than the lines read.
C28_OneDeclarationPerLine ==
    /\ [](\A i \in 1..Len(todo) : RulesFiring(todo[i], include_private) <= 1)
    /\ [](Len(funcs) <= pos - 1 /\ Len(funcs) <= Len(todo))
    /\ [][pos' = pos + 1 =>
            /\ Len(funcs') <= Len(funcs) + 1
            /\ SubSeq(funcs', 1, Len(funcs)) = funcs
            /\ (ReadNormally /\ IsClassLine(todo[pos], include_private)) =>
                   funcs' = Append(funcs, NameAfter(todo[pos], ClassKeyword))
            /\ (ReadNormally /\ IsDefLine(todo[pos], include_private)) =>
                   funcs' = Append(funcs, NameAfter(todo[pos], DefKeyword))]_vars

\* A text that declares f, then C, then f again: the three names are returned
\* in the order of their lines, f twice
C28_Witness ==
    /\ dpc = "done"
    /\ text = JoinLines(<<DefF, <<"c", "l", "a", "s", "s", " ", "C", ":">>, DefF>>)
    /\ funcs = << <<"f">>, <<"C">>, <<"f">> >>

(***************************************************************************)
(* Further properties of make_python_init                                  *)
(***************************************************************************)
\* The glob loop is over and no source file of the folder gave a declaration
NothingDeclared == elem > Len(Children) /\ Len(results) = 0

\* C29: make_python_init completes when no direct-child source file yields a
\* declaration: the call is not left by an error and what it returns is the
\* empty manifest text.
C29_EmptyFolderCompletes ==
    NothingDeclared =>
        /\ mpc # "raised"
        /\ mpc = "done" => mret = << <<>> >>

\* The line starts with the triple-quote marker, with or without the raw prefix
StartsWithMarker(line) ==
    \/ SubSeq(line, 1, 3) = <<QUOTE, QUOTE, QUOTE>>
    \/ SubSeq(line, 1, 4) = <<"r", QUOTE, QUOTE, QUOTE>>

\* C30: the two flags encode three states: they are never both set when a
\* line is about to be read; skip_next is set only by an @overload line read
\* in the normal state, which does set it, and is cleared by the very next
\* line; skip_strs is set only by a line read in the normal state that starts
\* with the triple-quote marker (with or without the raw prefix).
C30_ThreeStateMachine ==
    /\ [](~(skip_next /\ skip_strs))
    /\ [][(skip_next' /\ pos' = pos + 1) =>
             (~skip_next /\ ~skip_strs /\ todo[pos] = OverloadMarker)]_vars
    /\ [][(~skip_next /\ ~skip_strs /\ pos' = pos + 1 /\ todo[pos] = OverloadMarker) =>
             (skip_next' /\ ~skip_strs')]_vars
    /\ [][(skip_next /\ pos' = pos + 1) => (~skip_next' /\ skip_strs' = skip_strs)]_vars
    /\ [][(skip_strs' /\ ~skip_strs) =>
             (/\ pos' = pos + 1
              /\ ~skip_next
              /\ todo[pos] # OverloadMarker
              /\ StartsWithMarker(todo[pos]))]_vars

\* An @overload line set skip_next, the next line cleared it, and the opening
\* line of a block read after them has set skip_strs
C30_Witness ==
    /\ dpc = "scan"
    /\ todo = <<OverloadMarker, DefF, TripleQuote>>
    /\ pos = 4
    /\ skip_strs /\ ~skip_next
    /\ funcs = <<>>

====
